---- MODULE Spec2Model ----
(***************************************************************************)
(* A model of ProjectModel (src/src/projectmodel.cpp): the asset registry  *)
(* of the sprite tool, its load / save / clear operations, the AssetRef    *)
(* value type and the Folder / Part / Composite record mappers.            *)
(***************************************************************************)
EXTENDS Integers, Sequences, FiniteSets, TLC

VARIABLES
    folders,      \* ProjectModel::folders    : uuid -> Folder
    parts,        \* ProjectModel::parts      : uuid -> Part
    composites,   \* ProjectModel::composites : uuid -> Composite
    fileName,     \* ProjectModel::fileName
    disk,         \* the files load() can open : path -> archive
    qtNoDebug,    \* TRUE when the build defines QT_NO_DEBUG (Q_ASSERT is a no-op)
    last,         \* the last registry operation and what it returned
    pre,          \* the registry as it was when the last operation started
    arg,          \* the argument a mapper or an AssetRef operator is applied to
    ret           \* what that operator returned

vars == <<folders, parts, composites, fileName, disk, qtNoDebug, last, pre, arg, ret>>

registryVars == <<folders, parts, composites, fileName, disk, qtNoDebug, last, pre>>

(***************************************************************************)
(* Bounds of the model.                                                    *)
(***************************************************************************)
\* uuids are 1..MaxUuid; 0 is the null QUuid
MaxUuid == 2

\* number of buckets the uuid hash is folded into
HashBuckets == 2

\* longest asset or child name
MaxNameLen == 1

\* most children of a composite, most entries of a "parts" array
MaxChildren == 2

\* most entries of a "frames" array, largest numFrames
MaxFrames == 2

\* integer fields of the records range over 0..MaxInt (shifted where a field can be negative)
MaxInt == 1

\* the "version" numbers of the documents run from 0 to MaxVersion, in halves
MaxVersion == 2

(***************************************************************************)
(* AssetRef                                                                *)
(***************************************************************************)
NullUuid == 0

Uuids == 0..MaxUuid

AssetTypes == {"Part", "Composite", "Folder"}

\* QUuid::isNull
isNull(uuid) == uuid = NullUuid

\* a default-constructed AssetRef: null uuid, type not set by this file
DefaultAssetRef == [uuid |-> NullUuid, type |-> "Unset"]

AssetRefs == [uuid : Uuids, type : AssetTypes] \cup {DefaultAssetRef}

\* operator== with the null clause dropped
operatorEqNoNull(a, b) == a.uuid = b.uuid /\ a.type = b.type

\* bool operator==(const AssetRef& a, const AssetRef& b)
operatorEq(a, b) ==
    (isNull(a.uuid) /\ isNull(b.uuid)) \/ (a.uuid = b.uuid /\ a.type = b.type)

\* bool operator!=(const AssetRef& a, const AssetRef& b)
operatorNeq(a, b) == ~operatorEq(a, b)

\* bool operator<(const AssetRef& a, const AssetRef& b)
operatorLt(a, b) == a.uuid > b.uuid

\* qHash(const QUuid&): a many-to-one function of the uuid
qHashUuid(uuid) == uuid % HashBuckets

\* uint qHash(const AssetRef& key)
qHash(key) == qHashUuid(key.uuid)

EmptyMap == [u \in {} |-> 0]

(***************************************************************************)
(* Strings, uuid text and JSON objects.                                    *)
(* A QString is a sequence of characters.  A JSON object is a function     *)
(* from its keys to its values; an absent key is a key not in its DOMAIN.  *)
(***************************************************************************)
Chars == {"a", " ", "_"}

RECURSIVE SeqsUpTo(_, _)
SeqsUpTo(S, n) ==
    IF n = 0 THEN {<<>>}
    ELSE LET shorter == SeqsUpTo(S, n - 1)
         IN  shorter \cup {Append(s, x) : s \in {t \in shorter : Len(t) = n - 1}, x \in S}

\* QString::replace(' ', '_')
replaceSpaces(str) == [i \in 1..Len(str) |-> IF str[i] = " " THEN "_" ELSE str[i]]

\* the text of a uuid inside a document: some hex digits, braced or not, or
\* something that is no uuid at all
Malformed == -1

UuidTexts == [braces : BOOLEAN, hex : (1..MaxUuid) \cup {NullUuid, Malformed}]

\* QUuid::toString(): the braced form
toString(uuid) == [braces |-> TRUE, hex |-> uuid]

\* QUuid(const QString&): braces are optional, anything unparsable is the null uuid
QUuid(text) == IF text.hex = Malformed THEN NullUuid ELSE text.hex

\* QJsonObject::contains
contains(obj, key) == key \in DOMAIN obj

\* QJsonObject::value(key).toString(): "" for an absent key
valueString(obj, key) == IF contains(obj, key) THEN obj[key] ELSE <<>>

\* QJsonObject::value(key).toInt() / .toVariant().toInt(): 0 for an absent key
valueInt(obj, key) == IF contains(obj, key) THEN obj[key] ELSE 0

\* QJsonObject::value(key).toArray(): empty for an absent key
valueArray(obj, key) == IF contains(obj, key) THEN obj[key] ELSE <<>>

\* QJsonObject::value(key).toObject(): empty for an absent key
valueObject(obj, key) == IF contains(obj, key) THEN obj[key] ELSE EmptyMap

\* obj[key].toString() parsed as a uuid; the null uuid text for an absent key
valueUuid(obj, key) ==
    IF contains(obj, key) THEN QUuid(obj[key]) ELSE NullUuid

\* QMap::insert / QJsonObject::insert: a later value replaces an earlier one
insert(map, key, value) ==
    [k \in (DOMAIN map) \cup {key} |-> IF k = key THEN value ELSE map[k]]

(***************************************************************************)
(* Folder mapper                                                           *)
(***************************************************************************)
\* QSharedPointer<Folder>::create() with ref set by the caller
NewFolder(ref) == [ref |-> ref, name |-> <<>>, parent |-> DefaultAssetRef]

\* void ProjectModel::JsonToFolder(const QJsonObject& obj, Folder* folder)
JsonToFolder(obj, folder) ==
    [folder EXCEPT
        !.name = valueString(obj, "name"),
        !.parent = IF contains(obj, "parent")
                   THEN [uuid |-> QUuid(obj["parent"]), type |-> "Folder"]
                   ELSE @]

\* void ProjectModel::FolderToJson(const QString& name, const Folder& folder, QJsonObject* obj)
FolderToJson(name, folder) ==
    LET named == insert(EmptyMap, "name", name)
    IN  IF ~isNull(folder.parent.uuid)
        THEN insert(named, "parent", toString(folder.parent.uuid))
        ELSE named

(***************************************************************************)
(* Composite mapper                                                        *)
(***************************************************************************)
\* QSharedPointer<Composite>::create() with ref set by the caller
NewComposite(ref) ==
    [ref |-> ref, name |-> <<>>, properties |-> <<>>, parent |-> DefaultAssetRef,
     root |-> 0, children |-> <<>>, childrenMap |-> EmptyMap]

\* one entry of the "parts" array, CompositeToJson lines 590-607
ChildToJson(childName, child) ==
    [name |-> replaceSpaces(childName),
     parent |-> child.parent,
     parentPivot |-> child.parentPivot,
     z |-> child.z,
     part |-> toString(child.part.uuid),
     children |-> child.children]

\* void ProjectModel::CompositeToJson(const QString& name, const Composite& comp, QJsonObject* obj)
CompositeToJson(name, comp) ==
    LET base == [root |-> comp.root, properties |-> comp.properties, name |-> name,
                 parts |-> [i \in 1..Len(comp.children) |->
                               ChildToJson(comp.children[i],
                                           comp.childrenMap[comp.children[i]])]]
    IN  IF ~isNull(comp.parent.uuid)
        THEN insert(base, "parent", toString(comp.parent.uuid))
        ELSE base

\* the Composite::Child built from one "parts" entry, JsonToComposite lines 630-641
JsonToChild(childObject, index) ==
    [parent |-> valueInt(childObject, "parent"),
     parentPivot |-> valueInt(childObject, "parentPivot"),
     z |-> valueInt(childObject, "z"),
     part |-> [uuid |-> valueUuid(childObject, "part"), type |-> "Part"],
     index |-> index,
     children |-> valueArray(childObject, "children")]

\* the foreach of JsonToComposite, lines 624-645, from entry i of the array on
RECURSIVE JsonToChildren(_, _, _)
JsonToChildren(children, i, comp) ==
    IF i > Len(children) THEN comp
    ELSE LET childObject == children[i]
             name == valueString(childObject, "name")
         IN  JsonToChildren(children, i + 1,
                 [comp EXCEPT
                     !.children = Append(@, name),
                     !.childrenMap = insert(@, name, JsonToChild(childObject, i - 1))])

\* JsonToComposite that numbers every child 0
JsonToCompositeIndexZero(obj, comp) ==
    LET c == JsonToChildren(valueArray(obj, "parts"), 1, comp)
    IN  [c EXCEPT !.childrenMap = [n \in DOMAIN @ |-> [@[n] EXCEPT !.index = 0]]]

\* void ProjectModel::JsonToComposite(const QJsonObject& obj, Composite* comp)
JsonToComposite(obj, comp) ==
    LET head == [comp EXCEPT
                    !.root = valueInt(obj, "root"),
                    !.name = valueString(obj, "name"),
                    !.properties = valueString(obj, "properties"),
                    !.parent = IF contains(obj, "parent")
                               THEN [uuid |-> QUuid(obj["parent"]), type |-> "Folder"]
                               ELSE @]
    IN  JsonToChildren(valueArray(obj, "parts"), 1, head)

(***************************************************************************)
(* Part mapper                                                             *)
(***************************************************************************)
\* the length of Part::Mode::pivots
MAX_PIVOTS == 4

PivotSlots == 0..(MAX_PIVOTS - 1)

\* a null QSharedPointer<QImage>: what QMap::value gives for an absent name
NullImage == [null |-> TRUE, width |-> 0, height |-> 0]

\* QMap<QString, QSharedPointer<QImage>>::value(imageName)
imageValue(imageMap, imageName) ==
    IF imageName \in DOMAIN imageMap THEN imageMap[imageName] ELSE NullImage

\* QSharedPointer<Part>::create() with ref and properties set by the caller
NewPart(ref) ==
    [ref |-> ref, name |-> <<>>, parent |-> DefaultAssetRef, properties |-> <<>>,
     modes |-> EmptyMap]

\* Part::Mode m; before the frames are read, JsonToPart lines 479-485
NewMode(modeObject) ==
    [width |-> valueInt(modeObject, "width"),
     height |-> valueInt(modeObject, "height"),
     numFrames |-> valueInt(modeObject, "numFrames"),
     numPivots |-> valueInt(modeObject, "numPivots"),
     framesPerSecond |-> valueInt(modeObject, "framesPerSecond"),
     frames |-> <<>>,
     anchor |-> <<>>,
     pivots |-> [p \in PivotSlots |-> <<>>]]

\* frameObject.value("p%1x") / ("p%1y") for pivot p: (0,0) when the keys are absent
pivotValue(frameObject, p) ==
    IF contains(frameObject, "pivots") /\ p \in DOMAIN frameObject["pivots"]
    THEN frameObject["pivots"][p]
    ELSE <<0, 0>>

\* the two pivot loops of one frame, JsonToPart lines 504-511: slots below
\* numPivots take the record's values, the slots from numPivots on take (0,0)
framePivots(m, frameObject) ==
    [p \in PivotSlots |->
        IF p < m.numPivots THEN Append(m.pivots[p], pivotValue(frameObject, p))
        ELSE Append(m.pivots[p], <<0, 0>>)]

\* the indexes the two pivot loops write that are no slot of m.pivots[MAX_PIVOTS]
framePivotsOutOfBounds(m) ==
    {p \in 0..(m.numPivots - 1) : p \notin PivotSlots}
        \cup {p \in m.numPivots..(MAX_PIVOTS - 1) : p \notin PivotSlots}

\* one turn of the frame loop, JsonToPart lines 490-511.  run is the mode built so
\* far with what went wrong on the way: a failed Q_ASSERT, a dereferenced null
\* image pointer, the pivot indexes written out of bounds.
JsonToFrame(run, frameObject, imageMap) ==
    LET m == run.m
        image == imageValue(imageMap, valueString(frameObject, "image"))
    IN  [m |-> [m EXCEPT
                    !.anchor = Append(@, <<valueInt(frameObject, "ax"),
                                           valueInt(frameObject, "ay")>>),
                    !.frames = Append(@, image),
                    !.pivots = framePivots(m, frameObject)],
         nullDeref |-> run.nullDeref \/ image.null,
         assertFailed |-> \/ run.assertFailed
                          \/ image.null
                          \/ ~(image.width = m.width /\ image.height = m.height),
         outOfBounds |-> run.outOfBounds \cup framePivotsOutOfBounds(m)]

RECURSIVE JsonToFrames(_, _, _, _)
JsonToFrames(run, frameArray, frame, imageMap) ==
    IF frame > Len(frameArray) THEN run
    ELSE JsonToFrames(JsonToFrame(run, frameArray[frame], imageMap),
                      frameArray, frame + 1, imageMap)

\* one Mode of a Part, JsonToPart lines 479-512
JsonToMode(modeObject, imageMap) ==
    LET m == NewMode(modeObject)
        frameArray == valueArray(modeObject, "frames")
    IN  JsonToFrames([m |-> m,
                      nullDeref |-> FALSE,
                      assertFailed |-> Len(frameArray) # m.numFrames,
                      outOfBounds |-> {}],
                     frameArray, 1, imageMap)

\* the keys JsonToPart takes for mode names: every key but "properties" whose
\* value is a non-empty object
ModeNames(obj) ==
    {k \in DOMAIN obj : k \notin {"name", "parent", "properties"} /\ obj[k] # EmptyMap}

\* void ProjectModel::JsonToPart(const QJsonObject& obj, const QMap<...>& imageMap, Part* part)
\* part is the Part filled in; the other fields collect what went wrong in any mode
JsonToPart(obj, imageMap, part) ==
    LET runs == [k \in ModeNames(obj) |-> JsonToMode(obj[k], imageMap)]
    IN  [part |-> [part EXCEPT
                      !.name = valueString(obj, "name"),
                      !.parent = IF contains(obj, "parent")
                                 THEN [uuid |-> QUuid(obj["parent"]), type |-> "Folder"]
                                 ELSE @,
                      !.properties = IF contains(obj, "properties")
                                     THEN obj["properties"] ELSE @,
                      !.modes = [k \in (DOMAIN @) \cup ModeNames(obj) |->
                                    IF k \in ModeNames(obj) THEN runs[k].m ELSE @[k]]],
         nullDeref |-> \E k \in ModeNames(obj) : runs[k].nullDeref,
         assertFailed |-> \E k \in ModeNames(obj) : runs[k].assertFailed,
         outOfBounds |-> UNION {runs[k].outOfBounds : k \in ModeNames(obj)}]

(***************************************************************************)
(* The archive load() reads.  A record name is a sequence of chunks, its   *)
(* last chunk the extension.  A record's buffer is a sequence of bytes: a  *)
(* NUL, or a token standing for a run of non-NUL bytes - the text of a     *)
(* JSON value, the bytes of a PNG image, or bytes that are neither.        *)
(***************************************************************************)
PROJECT_SAVE_FILE_VERSION == 1

DataJson == <<"data", ".json">>

NUL == [c |-> "nul"]

Junk == [c |-> "junk"]

JsonText(doc) == [c |-> "json", doc |-> doc]

PngBytes(width, height) == [c |-> "png", width |-> width, height |-> height]

\* the archive of a path that cannot be opened
NoFile == [exists |-> FALSE]

\* QString::endsWith(".png")
endsWithPng(assetName) == Len(assetName) > 0 /\ assetName[Len(assetName)] = ".png"

\* load lines 165-171: the index of the first NUL of the record, 0 when the
\* record holds none
dataLengthOf(dataRec) ==
    IF \E i \in 1..dataRec.length : dataRec.buffer[i] = NUL
    THEN (CHOOSE i \in 1..dataRec.length :
             /\ dataRec.buffer[i] = NUL
             /\ \A j \in 1..(i - 1) : dataRec.buffer[j] # NUL) - 1
    ELSE 0

\* QJsonDocument::fromJson(QByteArray(buffer, dataLength), &error): the bytes
\* parse when they are the text of one JSON array or object
fromJson(bytes) ==
    IF Len(bytes) = 1 /\ bytes[1].c = "json"
    THEN [error |-> "NoError", doc |-> bytes[1].doc]
    ELSE [error |-> "ParseError"]

\* QJsonValue::toInt(defaultValue) that takes a non-number for the supported version
toIntLenient(value, defaultValue) ==
    IF value.t = "double" THEN value.halves \div 2 ELSE PROJECT_SAVE_FILE_VERSION

\* QJsonValue::toInt(defaultValue): the number when the value is a double with no
\* fractional part, the default otherwise.  A double is kept as a count of halves.
toInt(value, defaultValue) ==
    IF value.t = "double" /\ value.halves % 2 = 0 THEN value.halves \div 2
    ELSE defaultValue

\* QImage::loadFromData(QByteArray(record.buffer, record.length), "PNG"):
\* a null QImage (0 x 0) when the bytes are no PNG
loadFromData(record) ==
    IF record.length = 1 /\ record.buffer[1].c = "png"
    THEN [res |-> TRUE,
          img |-> [null |-> FALSE, width |-> record.buffer[1].width,
                   height |-> record.buffer[1].height]]
    ELSE [res |-> FALSE, img |-> [null |-> FALSE, width |-> 0, height |-> 0]]

\* load lines 240-251: the image map of the archive
imageMapOf(fileMap) ==
    [assetName \in {n \in DOMAIN fileMap : endsWithPng(n)} |->
        loadFromData(fileMap[assetName]).img]

\* QJsonObject iterates its keys in sorted order: unbraced uuid text sorts before
\* braced text ('{' follows every hex digit), text that is no uuid last
KeyRank(text) ==
    (IF text.braces THEN MaxUuid + 2 ELSE 0)
        + (IF text.hex = Malformed THEN MaxUuid + 1 ELSE text.hex)

\* the key of obj whose record is the last one inserted under uuid
LastKey(obj, uuid) ==
    CHOOSE k \in DOMAIN obj :
        /\ QUuid(k) = uuid
        /\ \A k2 \in DOMAIN obj : QUuid(k2) = uuid => KeyRank(k2) <= KeyRank(k)

KeyUuids(obj) == {QUuid(k) : k \in DOMAIN obj}

\* load lines 259-269: every folder record decoded into a fresh Folder and
\* inserted under the uuid of its key, a later insert replacing an earlier one
insertFolders(map, obj) ==
    [uuid \in (DOMAIN map) \cup KeyUuids(obj) |->
        IF uuid \in KeyUuids(obj)
        THEN JsonToFolder(obj[LastKey(obj, uuid)],
                          NewFolder([uuid |-> uuid, type |-> "Folder"]))
        ELSE map[uuid]]

\* JsonToPart on the record inserted last under uuid
partRun(obj, imageMap, uuid) ==
    JsonToPart(obj[LastKey(obj, uuid)], imageMap, NewPart([uuid |-> uuid, type |-> "Part"]))

\* load lines 271-282
insertParts(map, obj, imageMap) ==
    [uuid \in (DOMAIN map) \cup KeyUuids(obj) |->
        IF uuid \in KeyUuids(obj) THEN partRun(obj, imageMap, uuid).part ELSE map[uuid]]

\* load lines 284-295
insertComposites(map, obj) ==
    [uuid \in (DOMAIN map) \cup KeyUuids(obj) |->
        IF uuid \in KeyUuids(obj)
        THEN JsonToComposite(obj[LastKey(obj, uuid)],
                             NewComposite([uuid |-> uuid, type |-> "Composite"]))
        ELSE map[uuid]]

\* what went wrong in the JsonToPart calls of one load, over all part records
partRuns(obj, imageMap) ==
    LET runs == [k \in DOMAIN obj |-> JsonToPart(obj[k], imageMap, NewPart(DefaultAssetRef))]
    IN  [nullDeref |-> \E k \in DOMAIN obj : runs[k].nullDeref,
         assertFailed |-> \E k \in DOMAIN obj : runs[k].assertFailed,
         outOfBounds |-> UNION {runs[k].outOfBounds : k \in DOMAIN obj}]

\* whether the process dies in a decode that went wrong as run says: a failed
\* Q_ASSERT aborts a debug build; a null dereference or a write past the pivot
\* array is undefined, it may kill the process or go unnoticed
Crashes(run, undefined, noDebug) ==
    \/ ~noDebug /\ run.assertFailed
    \/ undefined = "crash" /\ (run.nullDeref \/ run.outOfBounds # {})

\* return false with a reason: the registry is not touched
Failed(reg, reason) ==
    [ok |-> FALSE, crashed |-> FALSE, reason |-> reason, reg |-> reg]

\* lines 201-300 of load: the document has passed the version gate.  The
\* prefs.json merge of lines 201-236 writes QSettings alone, which is no part of
\* the registry, and cannot fail the load.
populate(reg, path, fileMap, dataObj, undefined, noDebug) ==
    LET imageMap == imageMapOf(fileMap)
        pngAssert == \E n \in DOMAIN fileMap :
                        endsWithPng(n) /\ ~loadFromData(fileMap[n]).res
        foldersObj == valueObject(dataObj, "folders")
        partsObj == valueObject(dataObj, "parts")
        compsObj == valueObject(dataObj, "comps")
        runs == partRuns(partsObj, imageMap)
        crashed == (~noDebug /\ pngAssert) \/ Crashes(runs, undefined, noDebug)
    IN  IF crashed
        THEN [ok |-> FALSE, crashed |-> TRUE, reason |-> "", reg |-> reg]
        ELSE [ok |-> TRUE, crashed |-> FALSE, reason |-> "",
              reg |-> [folders |-> insertFolders(reg.folders, foldersObj),
                       parts |-> insertParts(reg.parts, partsObj, imageMap),
                       composites |-> insertComposites(reg.composites, compsObj),
                       fileName |-> path]]

\* load that empties the registry before it reads the file
loadClearFirst(reg, path, archive, undefined, noDebug) ==
    IF ~archive.exists \/ ~archive.ok \/ DataJson \notin DOMAIN archive.fileMap
    THEN Failed([folders |-> EmptyMap, parts |-> EmptyMap, composites |-> EmptyMap,
                 fileName |-> ""], "Cannot read project file")
    ELSE LET dataRec == archive.fileMap[DataJson]
             parsed == fromJson(SubSeq(dataRec.buffer, 1, dataLengthOf(dataRec)))
         IN  IF \/ dataLengthOf(dataRec) = 0
                \/ parsed.error # "NoError"
                \/ ~parsed.doc.isObject
                \/ ~contains(parsed.doc.members, "version")
                \/ toInt(parsed.doc.members["version"], 0) # PROJECT_SAVE_FILE_VERSION
             THEN Failed([folders |-> EmptyMap, parts |-> EmptyMap,
                          composites |-> EmptyMap, fileName |-> ""],
                         "Internal data.json is invalid")
             ELSE populate(reg, path, archive.fileMap, parsed.doc.members,
                           undefined, noDebug)

\* bool ProjectModel::load(const QString& fileName, QString& reason)
\* archive is what the file at fileName holds; undefined says what the undefined
\* behaviour met on the way (a null image dereferenced, a pivot written out of
\* bounds) does to the process; noDebug is QT_NO_DEBUG.
load(reg, path, archive, undefined, noDebug) ==
    IF ~archive.exists THEN Failed(reg, "Cannot open file")
    ELSE IF ~archive.ok THEN Failed(reg, "Cannot read project file")
    ELSE IF DataJson \notin DOMAIN archive.fileMap
    THEN Failed(reg, "Internal data.json is missing")
    ELSE
    LET dataRec == archive.fileMap[DataJson]
        dataLength == dataLengthOf(dataRec)
        parsed == fromJson(SubSeq(dataRec.buffer, 1, dataLength))
    IN  IF dataLength = 0 THEN Failed(reg, "Internal data.json is empty")
        ELSE IF parsed.error # "NoError"
        THEN Failed(reg, "Internal data.json parse error: illegal value")
        ELSE IF DOMAIN parsed.doc.members = {} \/ ~parsed.doc.isObject
        THEN Failed(reg, "Internal data.json is not a valid json object")
        ELSE IF ~contains(parsed.doc.members, "version")
        THEN Failed(reg, "Internal data.json has no version field")
        ELSE IF toInt(parsed.doc.members["version"], 0) # PROJECT_SAVE_FILE_VERSION
        THEN Failed(reg, "Internal data.json has an invalid version")
        ELSE populate(reg, path, archive.fileMap, parsed.doc.members,
                      undefined, noDebug)

(***************************************************************************)
(* The registry is idle while the value operators are exercised.           *)
(***************************************************************************)
NoOp == [op |-> "none", path |-> "", ok |-> TRUE, reason |-> "", crashed |-> FALSE,
         afterSave |-> FALSE]

EmptyRegistry == [folders |-> EmptyMap, parts |-> EmptyMap, composites |-> EmptyMap,
                  fileName |-> ""]

RegistryIdle ==
    /\ folders = EmptyMap
    /\ parts = EmptyMap
    /\ composites = EmptyMap
    /\ fileName = ""
    /\ disk = EmptyMap
    /\ qtNoDebug = TRUE
    /\ last = NoOp
    /\ pre = EmptyRegistry

NoRet == [fn |-> "none"]

(***************************************************************************)
(* SpecRef: the AssetRef operators applied to every pair of refs.          *)
(***************************************************************************)
InitRef ==
    /\ RegistryIdle
    /\ arg \in [a : AssetRefs, b : AssetRefs]
    /\ ret = NoRet

Compare ==
    /\ ret.fn = "none"
    /\ ret' = [fn |-> "compare",
               eq |-> operatorEq(arg.a, arg.b),
               neq |-> operatorNeq(arg.a, arg.b),
               lt |-> operatorLt(arg.a, arg.b),
               hashA |-> qHash(arg.a),
               hashB |-> qHash(arg.b)]
    /\ UNCHANGED <<arg, registryVars>>

NextRef == Compare

SpecRef == InitRef /\ [][NextRef]_vars

(***************************************************************************)
(* SpecMapper: the record mappers applied to bounded sets of inputs.       *)
(***************************************************************************)
Names == SeqsUpTo(Chars, MaxNameLen)

\* a uuid of the model picked by an integer
PickUuid(k) == (k % MaxUuid) + 1

\* a Folder of the registry: kind Folder, a parent that is null or a Folder
FolderInputs ==
    [ref : [uuid : 1..MaxUuid, type : {"Folder"}],
     name : Names,
     parent : {DefaultAssetRef} \cup [uuid : Uuids, type : {"Folder"}]]

\* the sequences of pairwise distinct names
DistinctNames ==
    {ns \in SeqsUpTo(Names, MaxChildren) :
        \A i, j \in 1..Len(ns) : ns[i] = ns[j] => i = j}

\* child number i (from 0) of a composite, its fields spread by k
ChildInput(k, i) ==
    [parent |-> i - 1,
     parentPivot |-> k,
     z |-> k + i,
     part |-> [uuid |-> (k + i) % (MaxUuid + 1), type |-> "Part"],
     index |-> i,
     children |-> [j \in 1..k |-> i + j]]

\* a Composite that meets the data-model invariants: children and childrenMap in
\* sync, each child's index its position in children
CompositeInput(name, k, ns) ==
    [ref |-> [uuid |-> PickUuid(k), type |-> "Composite"],
     name |-> name,
     properties |-> IF k = 0 THEN <<>> ELSE <<"a", " ">>,
     parent |-> IF k = 0 THEN DefaultAssetRef ELSE [uuid |-> PickUuid(k), type |-> "Folder"],
     root |-> k - 1,
     children |-> ns,
     childrenMap |-> [n \in {ns[i] : i \in 1..Len(ns)} |->
                         ChildInput(k, (CHOOSE i \in 1..Len(ns) : ns[i] = n) - 1)]]

CompositeInputs ==
    {CompositeInput(name, k, ns) : name \in Names, k \in 0..MaxInt, ns \in DistinctNames}

\* an entry of a "parts" array; nameOpt is <<name>> or <<>> (no "name" key)
ChildObjectInput(nameOpt, k, i) ==
    LET fields == [parent |-> i - 1, parentPivot |-> k, z |-> k + i,
                   part |-> [braces |-> (k = 0), hex |-> ((k + i) % (MaxUuid + 2)) - 1],
                   children |-> [j \in 1..k |-> i + j]]
    IN  IF nameOpt = <<>> THEN fields ELSE insert(fields, "name", nameOpt[1])

NameOpts == {<<>>} \cup {<<n>> : n \in Names}

\* a composite record of a document: any "parts" array, names repeated or absent
CompositeObjectInput(k, nameOpts) ==
    LET partsArray == [i \in 1..Len(nameOpts) |-> ChildObjectInput(nameOpts[i], k, i - 1)]
    IN  IF k = 0 THEN [parts |-> partsArray]
        ELSE [root |-> k, name |-> <<"a">>, properties |-> <<"a", " ">>,
              parent |-> toString(PickUuid(k)), parts |-> partsArray]

CompositeObjectInputs ==
    {CompositeObjectInput(k, nameOpts) :
        k \in 0..MaxInt, nameOpts \in SeqsUpTo(NameOpts, MaxChildren)}

\* image records of an archive: one of the mode's size, one of another size
OkPng == <<"ok", ".png">>

SmallPng == <<"small", ".png">>

MissingPng == <<"none", ".png">>

ImageMapInput ==
    [n \in {OkPng, SmallPng} |->
        IF n = OkPng THEN [null |-> FALSE, width |-> 1, height |-> 1]
        ELSE [null |-> FALSE, width |-> 1, height |-> 0]]

\* a frame record: anchor, image name, and p{i}x / p{i}y for the pivots 0..MAX_PIVOTS
FrameObjectInput(image, k) ==
    [ax |-> k, ay |-> k + 1, image |-> image,
     pivots |-> [p \in 0..MAX_PIVOTS |-> <<p + k + 1, p + k + 2>>]]

FrameObjectInputs ==
    {FrameObjectInput(image, k) : image \in {OkPng, SmallPng, MissingPng}, k \in 0..MaxInt}

ModeObjectInput(numFrames, numPivots, frameArray) ==
    [width |-> 1, height |-> 1, numFrames |-> numFrames, numPivots |-> numPivots,
     framesPerSecond |-> 8, frames |-> frameArray]

ModeObjectInputs ==
    {ModeObjectInput(numFrames, numPivots, frameArray) :
        numFrames \in 0..MaxFrames,
        numPivots \in (-1)..(MAX_PIVOTS + 1),
        frameArray \in SeqsUpTo(FrameObjectInputs, MaxFrames)}

\* a part record with one mode
PartObjectInputs ==
    {[name |-> <<"a">>, Idle |-> modeObject] : modeObject \in ModeObjectInputs}

InitMapper ==
    /\ folders = EmptyMap
    /\ parts = EmptyMap
    /\ composites = EmptyMap
    /\ fileName = ""
    /\ disk = EmptyMap
    /\ qtNoDebug \in BOOLEAN
    /\ last = NoOp
    /\ pre = EmptyRegistry
    /\ \/ arg \in [kind : {"Folder"}, folder : FolderInputs]
       \/ arg \in [kind : {"Composite"}, comp : CompositeInputs]
       \/ arg \in [kind : {"CompositeObject"}, obj : CompositeObjectInputs]
       \/ arg \in [kind : {"PartObject"}, obj : PartObjectInputs]
    /\ ret = NoRet

\* JsonToFolder(FolderToJson(f.name, f)) on a fresh Folder
RoundTripFolder ==
    /\ ret.fn = "none"
    /\ arg.kind = "Folder"
    /\ LET obj == FolderToJson(arg.folder.name, arg.folder)
       IN  ret' = [fn |-> "RoundTripFolder", obj |-> obj,
                   out |-> JsonToFolder(obj, NewFolder(arg.folder.ref))]
    /\ UNCHANGED <<arg, registryVars>>

\* JsonToComposite(CompositeToJson(c.name, c)) on a fresh Composite
RoundTripComposite ==
    /\ ret.fn = "none"
    /\ arg.kind = "Composite"
    /\ LET obj == CompositeToJson(arg.comp.name, arg.comp)
       IN  ret' = [fn |-> "RoundTripComposite", obj |-> obj,
                   out |-> JsonToComposite(obj, NewComposite(arg.comp.ref))]
    /\ UNCHANGED <<arg, registryVars>>

\* JsonToComposite on a record of a document
DecodeComposite ==
    /\ ret.fn = "none"
    /\ arg.kind = "CompositeObject"
    /\ ret' = [fn |-> "JsonToComposite",
               out |-> JsonToComposite(arg.obj,
                           NewComposite([uuid |-> 1, type |-> "Composite"]))]
    /\ UNCHANGED <<arg, registryVars>>

\* JsonToPart on a record of a document
DecodePart ==
    /\ ret.fn = "none"
    /\ arg.kind = "PartObject"
    /\ \E undefined \in {"crash", "unnoticed"} :
          LET run == JsonToPart(arg.obj, ImageMapInput,
                                NewPart([uuid |-> 1, type |-> "Part"]))
          IN  ret' = IF Crashes(run, undefined, qtNoDebug)
                     THEN [fn |-> "JsonToPart", crashed |-> TRUE]
                     ELSE [fn |-> "JsonToPart", crashed |-> FALSE, out |-> run.part,
                           outOfBounds |-> run.outOfBounds]
    /\ UNCHANGED <<arg, registryVars>>

NextMapper == RoundTripFolder \/ RoundTripComposite \/ DecodeComposite \/ DecodePart

SpecMapper == InitMapper /\ [][NextMapper]_vars

(***************************************************************************)
(* Spec: the registry under load, clear and save, over a disk of archives. *)
(***************************************************************************)
Paths == {"p1", "p2"}

Record(buffer) == [length |-> Len(buffer), buffer |-> buffer]

ArchiveOf(fileMap) == [exists |-> TRUE, ok |-> TRUE, fileMap |-> fileMap]

\* the image records of the archives
ImageRecords ==
    [n \in {OkPng, SmallPng} |->
        IF n = OkPng THEN Record(<<PngBytes(1, 1)>>) ELSE Record(<<PngBytes(1, 0)>>)]

DocArchive(buffer) == ArchiveOf(insert(ImageRecords, DataJson, Record(buffer)))

JsonObject(members) == [isObject |-> TRUE, members |-> members]

JsonArray(members) == [isObject |-> FALSE, members |-> members]

Double(halves) == [t |-> "double", halves |-> halves]

VersionValues ==
    {Double(h) : h \in 0..(2 * MaxVersion)} \cup {[t |-> "string"], [t |-> "bool"], [t |-> "null"]}

Versioned(contents) == insert(contents, "version", Double(2 * PROJECT_SAVE_FILE_VERSION))

\* a folder record, its fields spread by the text of its key
FolderObjectInput(key) ==
    IF key.braces
    THEN [name |-> <<"a">>, parent |-> toString(PickUuid(key.hex + 1))]
    ELSE [name |-> <<"_">>]

FolderContents == {[folders |-> (key :> FolderObjectInput(key))] : key \in UuidTexts}

\* two keys that are texts of one uuid
TwinKeyContents ==
    [folders |-> ([braces |-> FALSE, hex |-> 1] :> [name |-> <<" ">>])
                    @@ ([braces |-> TRUE, hex |-> 1] :> [name |-> <<"a">>])]

\* the modes of the part records: a well-formed one, then one with numFrames
\* off, one with numPivots past the pivot array, one with an image of another
\* size, one with an image the archive does not hold
ModeCases ==
    {ModeObjectInput(1, 1, <<FrameObjectInput(OkPng, 0)>>),
     ModeObjectInput(MaxFrames, 1, <<FrameObjectInput(OkPng, 0)>>),
     ModeObjectInput(1, MAX_PIVOTS + 1, <<FrameObjectInput(OkPng, 0)>>),
     ModeObjectInput(1, 1, <<FrameObjectInput(SmallPng, 0)>>),
     ModeObjectInput(1, 1, <<FrameObjectInput(MissingPng, 0)>>)}

PartContents ==
    {[parts |-> (toString(1) :> [name |-> <<"a">>])]}
        \cup {[parts |-> (toString(1) :> [name |-> <<"a">>, Idle |-> modeObject])] :
                 modeObject \in ModeCases}

CompositeContents ==
    {[comps |-> (toString(PickUuid(1)) :> CompositeObjectInput(1, nameOpts))] :
        nameOpts \in SeqsUpTo({<<<<"a">>>>}, MaxChildren)}

\* one asset of each kind, all under the same uuid
MixedContents ==
    [folders |-> (toString(1) :> [name |-> <<"a">>]),
     parts |-> (toString(1) :> [name |-> <<"a">>]),
     comps |-> (toString(1) :> CompositeObjectInput(0, <<>>))]

Contents ==
    FolderContents \cup {TwinKeyContents} \cup PartContents \cup CompositeContents
        \cup {MixedContents}

GoodDoc == JsonObject(Versioned(MixedContents))

\* data.json buffers that are not one NUL-terminated document
OddBuffers ==
    {<<>>, <<NUL>>, <<NUL, JsonText(GoodDoc)>>, <<JsonText(GoodDoc)>>,
     <<JsonText(GoodDoc), NUL, Junk>>, <<Junk, NUL>>}

OddDocs ==
    {JsonArray(<<1>>), JsonObject(EmptyMap), JsonObject(MixedContents)}
        \cup {JsonObject(insert(MixedContents, "version", v)) : v \in VersionValues}

Archives ==
    {NoFile, [exists |-> TRUE, ok |-> FALSE, fileMap |-> EmptyMap], ArchiveOf(ImageRecords),
     ArchiveOf(insert(insert(ImageRecords, DataJson, Record(<<JsonText(GoodDoc), NUL>>)),
                      <<"bad", ".png">>, Record(<<Junk>>)))}
        \cup {DocArchive(buffer) : buffer \in OddBuffers}
        \cup {DocArchive(<<JsonText(doc), NUL>>) : doc \in OddDocs}
        \cup {DocArchive(<<JsonText(JsonObject(Versioned(contents))), NUL>>) :
                 contents \in Contents}

Registry ==
    [folders |-> folders, parts |-> parts, composites |-> composites, fileName |-> fileName]

Init ==
    /\ folders = EmptyMap
    /\ parts = EmptyMap
    /\ composites = EmptyMap
    /\ fileName = ""
    /\ disk \in [Paths -> Archives]
    /\ qtNoDebug \in BOOLEAN
    /\ last = NoOp
    /\ pre = EmptyRegistry
    /\ arg = NoRet
    /\ ret = NoRet

\* PM()->load(path, reason)
Load(path) ==
    /\ ~last.crashed
    /\ \E undefined \in {"crash", "unnoticed"} :
          LET out == load(Registry, path, disk[path], undefined, qtNoDebug)
          IN  /\ folders' = out.reg.folders
              /\ parts' = out.reg.parts
              /\ composites' = out.reg.composites
              /\ fileName' = out.reg.fileName
              /\ last' = [op |-> "load", path |-> path, ok |-> out.ok,
                          reason |-> out.reason, crashed |-> out.crashed,
                          afterSave |-> (last.op = "save" /\ last.path = path)]
    /\ pre' = Registry
    /\ UNCHANGED <<disk, qtNoDebug, arg, ret>>

\* void ProjectModel::clear()
Clear ==
    /\ ~last.crashed
    /\ folders' = EmptyMap
    /\ parts' = EmptyMap
    /\ composites' = EmptyMap
    /\ fileName' = ""
    /\ last' = [NoOp EXCEPT !.op = "clear"]
    /\ pre' = Registry
    /\ UNCHANGED <<disk, qtNoDebug, arg, ret>>

\* bool ProjectModel::save(const QString& fileName): logs a TODO and returns
\* false; the body that would write the archive is commented out
Save(path) ==
    /\ ~last.crashed
    /\ last' = [NoOp EXCEPT !.op = "save", !.path = path, !.ok = FALSE]
    /\ pre' = Registry
    /\ UNCHANGED <<folders, parts, composites, fileName, disk, qtNoDebug, arg, ret>>

Next ==
    \/ \E path \in Paths : Load(path)
    \/ Clear
    \/ \E path \in Paths : Save(path)

Spec == Init /\ [][Next]_vars

\* ---------------------------------------------------------------------------
\* Registry lookups: getAsset, getPart, getComposite, getFolder and has*.
\* ---------------------------------------------------------------------------

\* the nullptr a failed lookup returns
NullAsset == [null |-> TRUE]

\* QMap<AssetRef, QSharedPointer<T>>::value(key).data(): the node whose key is
\* equivalent to key under operator< (neither is less than the other); a
\* default-constructed, null pointer when there is none
value(map, key) ==
    LET hits == {u \in DOMAIN map :
                    /\ ~operatorLt(map[u].ref, key)
                    /\ ~operatorLt(key, map[u].ref)}
    IN  IF hits = {} THEN NullAsset ELSE map[CHOOSE u \in hits : TRUE]

getPart(reg, uuid) == value(reg.parts, uuid)

hasPart(reg, uuid) == getPart(reg, uuid) /= NullAsset

getComposite(reg, uuid) == value(reg.composites, uuid)

hasComposite(reg, uuid) == getComposite(reg, uuid) /= NullAsset

getFolder(reg, uuid) == value(reg.folders, uuid)

hasFolder(reg, uuid) == getFolder(reg, uuid) /= NullAsset

\* the switch on ref.type; any other type falls through to nullptr
getAsset(reg, ref) ==
    CASE ref.type = "Part"      -> getPart(reg, ref)
      [] ref.type = "Composite" -> getComposite(reg, ref)
      [] ref.type = "Folder"    -> getFolder(reg, ref)
      [] OTHER                  -> NullAsset

hasAsset(reg, ref) == getAsset(reg, ref) /= NullAsset

\* documents that pass every gate of load, and an absent file
LookupArchives ==
    {NoFile} \cup {DocArchive(<<JsonText(JsonObject(Versioned(c))), NUL>>) :
                      c \in Contents}

InitLookup ==
    /\ folders = EmptyMap
    /\ parts = EmptyMap
    /\ composites = EmptyMap
    /\ fileName = ""
    /\ disk \in [Paths -> LookupArchives]
    /\ qtNoDebug \in BOOLEAN
    /\ last = NoOp
    /\ pre = EmptyRegistry
    /\ arg = NoRet
    /\ ret = NoRet

\* a caller queries every getter with one ref; the registry is only read
Lookup(ref) ==
    /\ ~last.crashed
    /\ arg' = [fn |-> "lookup", ref |-> ref]
    /\ ret' = [fn           |-> "lookup",
               asset        |-> getAsset(Registry, ref),
               hasAsset     |-> hasAsset(Registry, ref),
               part         |-> getPart(Registry, ref),
               hasPart      |-> hasPart(Registry, ref),
               composite    |-> getComposite(Registry, ref),
               hasComposite |-> hasComposite(Registry, ref),
               folder       |-> getFolder(Registry, ref),
               hasFolder    |-> hasFolder(Registry, ref)]
    /\ UNCHANGED registryVars

\* loads and clears in any order, then the queries on the registry they left
NextLookup ==
    \/ ret = NoRet /\ \E path \in Paths : Load(path)
    \/ ret = NoRet /\ Clear
    \/ \E ref \in AssetRefs : Lookup(ref)

SpecLookup == InitLookup /\ [][NextLookup]_vars

\* the archive the last load read
LoadedArchive == disk[last.path]

HasDataRecord(archive) ==
    archive.exists /\ archive.ok /\ DataJson \in DOMAIN archive.fileMap

\* the data record of an archive parsed after trimming
ParsedData(archive) ==
    LET dataRec == archive.fileMap[DataJson]
    IN  fromJson(SubSeq(dataRec.buffer, 1, dataLengthOf(dataRec)))

\* the data record of the archive is the text of a JSON object
HoldsObject(archive) ==
    /\ HasDataRecord(archive)
    /\ ParsedData(archive).error = "NoError"
    /\ ParsedData(archive).doc.isObject

Members(archive) == ParsedData(archive).doc.members

VersionIsSupported(members) ==
    /\ contains(members, "version")
    /\ members["version"] = Double(2 * PROJECT_SAVE_FILE_VERSION)

PassesGate(archive) == HoldsObject(archive) /\ VersionIsSupported(Members(archive))

\* C1: load is all-or-nothing: when load returns failure, folders, parts,
\* composites and the remembered file path are what they were before the call,
\* and the reason returned is not empty.
C1_LoadAllOrNothing ==
    (last.op = "load" /\ ~last.ok /\ ~last.crashed) =>
        /\ Registry = pre
        /\ last.reason # ""

\* a load has failed at the version gate on a registry that held assets and a path
C1_Witness ==
    /\ last.op = "load"
    /\ ~last.ok
    /\ last.reason = "Internal data.json has an invalid version"
    /\ pre.folders # EmptyMap
    /\ pre.fileName # ""
    /\ Registry = pre

\* C2: after a successful load the collections hold exactly the assets of the
\* loaded document, nothing of the prior state, and fileName is the path.
C2_LoadReplacesRegistry ==
    (last.op = "load" /\ last.ok) =>
        /\ DOMAIN folders = KeyUuids(valueObject(Members(LoadedArchive), "folders"))
        /\ DOMAIN parts = KeyUuids(valueObject(Members(LoadedArchive), "parts"))
        /\ DOMAIN composites = KeyUuids(valueObject(Members(LoadedArchive), "comps"))
        /\ fileName = last.path

\* C3: for a data document that is a JSON object, load fails whenever "version"
\* is absent, is no number, or is a number other than 1, and then nothing of the
\* document is inserted; load gets past the version check only when version is 1.
C3_VersionGate ==
    (last.op = "load" /\ HoldsObject(LoadedArchive)) =>
        /\ ~VersionIsSupported(Members(LoadedArchive)) =>
              /\ ~last.ok
              /\ ~last.crashed
              /\ last.reason # ""
              /\ Registry = pre
        /\ VersionIsSupported(Members(LoadedArchive)) =>
              last.reason \notin {"Internal data.json has no version field",
                                  "Internal data.json has an invalid version"}

\* a document whose version is the number 1.5 has been refused
C3_Witness ==
    /\ last.op = "load"
    /\ HoldsObject(LoadedArchive)
    /\ contains(Members(LoadedArchive), "version")
    /\ Members(LoadedArchive)["version"] = Double(2 * PROJECT_SAVE_FILE_VERSION + 1)
    /\ ~last.ok
    /\ last.reason = "Internal data.json has an invalid version"

\* C4: load reports the data record as empty exactly when the record has length
\* zero or starts with a NUL; a record holding a valid document and no NUL at all
\* is decoded in full.
C4_EmptyOnlyWhenTrimmedEmpty ==
    (last.op = "load" /\ HasDataRecord(LoadedArchive)) =>
        LET dataRec == LoadedArchive.fileMap[DataJson]
        IN  (last.reason = "Internal data.json is empty")
                <=> (dataRec.length = 0 \/ dataRec.buffer[1] = NUL)

\* C5: save(path) writes the archive, so that save(path) followed by load(path)
\* gives back the assets the registry held before the save.
C5_SaveThenLoad ==
    /\ last.op = "save" => last.ok
    /\ (last.op = "load" /\ last.afterSave) =>
          /\ last.ok
          /\ folders = pre.folders
          /\ parts = pre.parts
          /\ composites = pre.composites

\* a mode record JsonToPart must refuse: frames not numFrames long, a frame whose
\* image the archive does not hold, or whose image is not width x height
MalformedMode(modeObject, fileMap) ==
    \/ Len(valueArray(modeObject, "frames")) # valueInt(modeObject, "numFrames")
    \/ \E frame \in 1..Len(valueArray(modeObject, "frames")) :
          LET imageName == valueString(modeObject["frames"][frame], "image")
          IN  \/ imageName \notin DOMAIN fileMap
              \/ fileMap[imageName].buffer
                    # <<PngBytes(valueInt(modeObject, "width"), valueInt(modeObject, "height"))>>

HasMalformedMode(archive) ==
    \E k \in DOMAIN valueObject(Members(archive), "parts") :
        LET obj == Members(archive)["parts"][k]
        IN  \E modeName \in ModeNames(obj) : MalformedMode(obj[modeName], archive.fileMap)

\* C9: a load whose document holds a malformed Mode fails instead of succeeding,
\* and the Part of that Mode is not inserted.
C9_MalformedModeRejected ==
    (last.op = "load" /\ PassesGate(LoadedArchive) /\ HasMalformedMode(LoadedArchive)) =>
        /\ ~last.ok
        /\ parts = pre.parts

\* two Composite::Child values agree field by field
SameChild(a, b) ==
    /\ a.parent = b.parent
    /\ a.parentPivot = b.parentPivot
    /\ a.z = b.z
    /\ operatorEq(a.part, b.part)
    /\ a.children = b.children
    /\ a.index = b.index

HasSpace(str) == \E i \in 1..Len(str) : str[i] = " "

FolderRoundTrips ==
    ret.fn = "RoundTripFolder" =>
        /\ ret.out.name = arg.folder.name
        /\ operatorEq(ret.out.parent, arg.folder.parent)

CompositeHeadRoundTrips ==
    ret.fn = "RoundTripComposite" =>
        /\ ret.out.root = arg.comp.root
        /\ ret.out.name = arg.comp.name
        /\ ret.out.properties = arg.comp.properties
        /\ operatorEq(ret.out.parent, arg.comp.parent)

\* C6 as stated: for every Folder and every Composite meeting the data-model
\* invariants, names with spaces included, decode(encode(x)) gives back name and
\* parent (Folder) and root, name, properties, parent, children and childrenMap
\* (Composite).
C6_RoundTripAnyName ==
    /\ FolderRoundTrips
    /\ CompositeHeadRoundTrips
    /\ ret.fn = "RoundTripComposite" =>
          /\ ret.out.children = arg.comp.children
          /\ DOMAIN ret.out.childrenMap = DOMAIN arg.comp.childrenMap
          /\ \A n \in DOMAIN arg.comp.childrenMap :
                SameChild(ret.out.childrenMap[n], arg.comp.childrenMap[n])

\* C6 amended: the Folder round trip is exact; the Composite round trip gives
\* back root, name, properties and parent, and the children list with every space
\* of a child name replaced by an underscore; when the replaced names are pairwise
\* distinct, childrenMap holds under each replaced name the child the composite
\* held under the original name.  So the round trip is exact for a composite
\* whose child names hold no space.
C6_RoundTripUpToSpaces ==
    /\ FolderRoundTrips
    /\ CompositeHeadRoundTrips
    /\ ret.fn = "RoundTripComposite" =>
          LET c == arg.comp
              fixed == [i \in 1..Len(c.children) |-> replaceSpaces(c.children[i])]
          IN  /\ ret.out.children = fixed
              /\ DOMAIN ret.out.childrenMap = {fixed[i] : i \in 1..Len(fixed)}
              /\ (\A i, j \in 1..Len(fixed) : fixed[i] = fixed[j] => i = j) =>
                    \A i \in 1..Len(fixed) :
                        SameChild(ret.out.childrenMap[fixed[i]],
                                  c.childrenMap[c.children[i]])
              /\ (\A i \in 1..Len(c.children) : ~HasSpace(c.children[i])) =>
                    /\ ret.out.children = c.children
                    /\ DOMAIN ret.out.childrenMap = DOMAIN c.childrenMap
                    /\ \A n \in DOMAIN c.childrenMap :
                          SameChild(ret.out.childrenMap[n], c.childrenMap[n])

\* a composite with two children, a space in its own name and none in its
\* children's, a parent folder and non-default child fields has been round-tripped
C6_Witness ==
    /\ ret.fn = "RoundTripComposite"
    /\ Len(arg.comp.children) = MaxChildren
    /\ \A i \in 1..Len(arg.comp.children) :
          arg.comp.children[i] # <<>> /\ ~HasSpace(arg.comp.children[i])
    /\ HasSpace(arg.comp.name)
    /\ ~isNull(arg.comp.parent.uuid)
    /\ ret.out.children = arg.comp.children

\* C8: every Mode JsonToPart produces, whatever numPivots and the number of
\* frames, has MAX_PIVOTS pivot sequences of numFrames points each (as long as
\* frames and anchor); slots below numPivots hold the record's p{i}x/p{i}y, the
\* other slots (0,0); no slot outside [0, MAX_PIVOTS) is written.
C8_PivotPadding ==
    (ret.fn = "JsonToPart" /\ ~ret.crashed) =>
        /\ ret.outOfBounds = {}
        /\ \A k \in DOMAIN ret.out.modes :
              LET m == ret.out.modes[k]
                  frameArray == arg.obj[k].frames
              IN  /\ DOMAIN m.pivots = 0..(MAX_PIVOTS - 1)
                  /\ Len(m.frames) = m.numFrames
                  /\ Len(m.anchor) = m.numFrames
                  /\ \A p \in DOMAIN m.pivots :
                        /\ Len(m.pivots[p]) = m.numFrames
                        /\ \A frame \in 1..Len(m.pivots[p]) :
                              m.pivots[p][frame] =
                                  IF p < m.numPivots
                                  THEN frameArray[frame].pivots[p]
                                  ELSE <<0, 0>>

\* C10: in every Composite JsonToComposite produces, from any "parts" array
\* (names repeated or absent included), children and childrenMap hold the same
\* names, children has no duplicate, the childrenMap indexes are pairwise distinct
\* and each child's index is the position of its name in children.
C10_ChildrenInSync ==
    ret.fn = "JsonToComposite" =>
        LET c == ret.out
        IN  /\ {c.children[i] : i \in 1..Len(c.children)} = DOMAIN c.childrenMap
            /\ \A i, j \in 1..Len(c.children) : c.children[i] = c.children[j] => i = j
            /\ Len(c.children) = Cardinality(DOMAIN c.childrenMap)
            /\ \A n1, n2 \in DOMAIN c.childrenMap :
                  c.childrenMap[n1].index = c.childrenMap[n2].index => n1 = n2
            /\ \A i \in 1..Len(c.children) : c.childrenMap[c.children[i]].index = i - 1

\* C7: a == b holds iff both ids are null (whatever the kinds) or ids and kinds
\* both match; so two null refs of different kinds are equal, a non-null ref never
\* equals a null ref, a != b is the negation of a == b, and equal refs hash alike.
C7_AssetRefEquality ==
    ret.fn = "compare" =>
        /\ (arg.a.uuid = NullUuid /\ arg.b.uuid = NullUuid) => ret.eq
        /\ ((arg.a.uuid = NullUuid) # (arg.b.uuid = NullUuid)) => ~ret.eq
        /\ (arg.a.uuid # NullUuid /\ arg.b.uuid # NullUuid) =>
              (ret.eq <=> (arg.a.uuid = arg.b.uuid /\ arg.a.type = arg.b.type))
        /\ ret.neq = ~ret.eq
        /\ ret.eq => ret.hashA = ret.hashB

\* two null refs of different kinds have been compared
C7_Witness ==
    /\ ret.fn = "compare"
    /\ arg.a = [uuid |-> NullUuid, type |-> "Part"]
    /\ arg.b = [uuid |-> NullUuid, type |-> "Folder"]
    /\ ret.eq

\* C11: after any loads and clears every key stored in folders, parts and
\* composites has the kind of its collection, and getPart, getComposite and
\* getFolder (and the matching has*) return an asset for a queried ref only
\* when that ref is not null and the asset's own ref has the same id and the
\* same kind as the queried one.
KeysHaveKind ==
    /\ \A u \in DOMAIN folders : folders[u].ref = [uuid |-> u, type |-> "Folder"]
    /\ \A u \in DOMAIN parts : parts[u].ref = [uuid |-> u, type |-> "Part"]
    /\ \A u \in DOMAIN composites :
          composites[u].ref = [uuid |-> u, type |-> "Composite"]

FoundIsQueried(found, ref) ==
    found /= NullAsset =>
        /\ ~isNull(ref.uuid)
        /\ found.ref.uuid = ref.uuid
        /\ found.ref.type = ref.type

C11_LookupsRespectKind ==
    /\ KeysHaveKind
    /\ ret.fn = "lookup" =>
          /\ FoundIsQueried(ret.part, arg.ref)
          /\ FoundIsQueried(ret.composite, arg.ref)
          /\ FoundIsQueried(ret.folder, arg.ref)
          /\ ret.hasPart => ret.part /= NullAsset
          /\ ret.hasComposite => ret.composite /= NullAsset
          /\ ret.hasFolder => ret.folder /= NullAsset

====
